---- MODULE Spec2Model ----
(***************************************************************************)
(* Client / Project REST API of client_project.py.                         *)
(*                                                                         *)
(* The relational store is the state: the client table, the project table  *)
(* and the project_users junction table, with the two auto-increment       *)
(* counters and the wall clock read by auto_now / auto_now_add.            *)
(*                                                                         *)
(* Spec     : every request is served alone, one action per handler.       *)
(* SpecConc : requests are served by workers that interleave at the        *)
(*            database statements each handler issues.                     *)
(***************************************************************************)
EXTENDS Integers, FiniteSets, Sequences, TLC

VARIABLES
    clients,        \* client table: id -> row
    projects,       \* project table: id -> row
    project_users,  \* junction table: set of <<project id, user id>>
    nextClientId,   \* AUTO_INCREMENT of the client table
    nextProjectId,  \* AUTO_INCREMENT of the project table
    clock,          \* value timezone.now() returns
    req,            \* Spec: the request served last
    resp,           \* Spec: its response
    workers         \* SpecConc: per worker, the request in flight and its position

vars == <<clients, projects, project_users, nextClientId, nextProjectId, clock,
          req, resp, workers>>

db == <<clients, projects, project_users, nextClientId, nextProjectId, clock>>

----------------------------------------------------------------------------
(* Bounds *)

NumUsers == 2       \* rows of auth_user
MaxClients == 2     \* client rows ever inserted
MaxProjects == 1    \* project rows ever inserted
MaxClock == 1       \* last instant of the clock
NumWorkers == 2     \* requests in flight at once (SpecConc)

Users == 1..NumUsers
\* ids a request body may name: every user and one id of no user
UserIds == 1..(NumUsers + 1)
\* ids a request path may name: every client ever inserted and one more
ClientIds == 1..(MaxClients + 1)
Workers == 1..NumWorkers

\* the NULL of a nullable foreign key, and AnonymousUser
NoUser == 0

ClientNames == {"", "Acme"}

----------------------------------------------------------------------------
(* Credentials and permissions *)

Anonymous == [kind |-> "none", user |-> NoUser]
BadToken == [kind |-> "invalid", user |-> NoUser]
Token(u) == [kind |-> "token", user |-> u]
Credentials == {Anonymous, BadToken} \cup {Token(u) : u \in Users}

\* TokenAuthentication: a presented token that maps to no user fails the request
AuthenticationFailed(cred) == cred.kind = "invalid"

\* request.user
RequestUser(cred) == IF cred.kind = "token" THEN cred.user ELSE NoUser

IsAuthenticated(cred) == RequestUser(cred) \in Users

AllowAny(cred) == TRUE

\* ClientListCreateView.get_permissions
ClientListCreateView_get_permissions(method, cred) ==
    IF method = "POST" THEN IsAuthenticated(cred) ELSE AllowAny(cred)

\* ClientDetailView.get_permissions
ClientDetailView_get_permissions(method, cred) ==
    IF method \in {"PUT", "PATCH", "DELETE"} THEN IsAuthenticated(cred) ELSE AllowAny(cred)

\* ProjectCreateView with the permission of the read endpoints
ProjectCreateView_permission_AllowAny(cred) == AllowAny(cred)

\* ProjectCreateView.permission_classes
ProjectCreateView_permission(cred) == IsAuthenticated(cred)

\* UserProjectsView.permission_classes
UserProjectsView_permission(cred) == IsAuthenticated(cred)

----------------------------------------------------------------------------
(* Representations *)

None == <<"None">>
Username(u) == <<"username", u>>

\* StringRelatedField / to_representation of a nullable user reference
UserString(u) == IF u = NoUser THEN None ELSE Username(u)

UserSerializer(u) == [id |-> u, username |-> Username(u)]

\* users of a project, read through the junction table
ProjectUsers(pu, p) == {u \in Users : <<p, u>> \in pu}

\* ProjectSerializer: client is str(client) = client_name
ProjectSerializer(cl, pr, pu, p) ==
    [id |-> p,
     project_name |-> pr[p].project_name,
     client |-> cl[pr[p].client].client_name,
     users |-> {UserSerializer(u) : u \in ProjectUsers(pu, p)},
     created_at |-> pr[p].created_at,
     created_by |-> UserString(pr[p].created_by)]

\* ProjectCreateSerializer: the two declared fields, users as primary keys
ProjectCreateSerializer(pr, pu, p) ==
    [project_name |-> pr[p].project_name,
     users |-> ProjectUsers(pu, p)]

\* Client.projects, the reverse of Project.client
ClientProjects(pr, c) == {p \in DOMAIN pr : pr[p].client = c}

ClientSerializer(cl, pr, pu, c) ==
    [id |-> c,
     client_name |-> cl[c].client_name,
     created_at |-> cl[c].created_at,
     created_by |-> UserString(cl[c].created_by),
     updated_at |-> cl[c].updated_at,
     projects |-> {ProjectSerializer(cl, pr, pu, p) : p \in ClientProjects(pr, c)}]

ClientListSerializer(cl, c) ==
    [id |-> c,
     client_name |-> cl[c].client_name,
     created_at |-> cl[c].created_at,
     created_by |-> UserString(cl[c].created_by)]

ClientCreateSerializer(cl, c) == [client_name |-> cl[c].client_name]

----------------------------------------------------------------------------
(* Validation *)

\* CharField of a model field without blank=True: required and not blank
ValidCharField(body, f) == f \in DOMAIN body /\ body[f] # ""

\* ClientCreateSerializer / ClientSerializer: client_name is the only writable field;
\* a partial update (PATCH) may leave it out
ValidClientBody(body, partial) ==
    IF "client_name" \in DOMAIN body THEN body.client_name # "" ELSE partial

\* a users field that takes the ids as given, without the lookup in the queryset
ValidUsersField_NoLookup(body) == "users" \in DOMAIN body

\* PrimaryKeyRelatedField(queryset=User.objects.all(), many=True):
\* required, may be empty, every id must be the key of a User
ValidUsersField(body) == "users" \in DOMAIN body /\ body.users \subseteq Users

\* ProjectCreateSerializer.is_valid
ValidProjectBody(body) == ValidCharField(body, "project_name") /\ ValidUsersField(body)

ClientBodies == {[client_name |-> n] : n \in ClientNames} \cup {[other |-> "x"]}

ProjectBodies ==
    {[project_name |-> "Website", users |-> us] : us \in SUBSET UserIds}
    \cup {[project_name |-> "", users |-> {}], [project_name |-> "Website"]}

----------------------------------------------------------------------------
(* Rows and statements *)

EmptyTable == [x \in {} |-> 0]

\* f with the row of key k set to r (INSERT of a new key, UPDATE of an old one)
Put(f, k, r) == [x \in DOMAIN f \cup {k} |-> IF x = k THEN r ELSE f[x]]

\* f without the rows whose keys are in ks
Remove(f, ks) == [x \in DOMAIN f \ ks |-> f[x]]

ClientRow(name, by, t1, t2) ==
    [client_name |-> name, created_at |-> t1, created_by |-> by, updated_at |-> t2]

ProjectRow(name, c, by, t) ==
    [project_name |-> name, client |-> c, created_at |-> t, created_by |-> by]

\* a store that does not enforce the foreign key
ProjectFkHolds_Unenforced(cl, c) == TRUE

\* project.client is a foreign key of the client table: the store refuses a
\* project row whose client is not a row
ProjectFkHolds(cl, c) == c \in DOMAIN cl

\* project_users.project_id is a foreign key of the project table
JunctionFkHolds(pr, p) == p \in DOMAIN pr

\* on_delete=DO_NOTHING: the projects stay
CascadeProjects_Keep(pr, c, collected) == pr

\* on_delete=CASCADE: the projects collected for the client, their junction rows,
\* then the client row
CascadeProjects(pr, c, collected) == Remove(pr, collected)

CascadeJunction(pu, collected) == {x \in pu : x[1] \notin collected}

\* Model.save() of a client: UPDATE of the row of that key and, when the UPDATE
\* matched no row, INSERT of the row
ClientSave(cl, pk, row) == Put(cl, pk, row)

\* ModelSerializer.update: the validated fields set on the loaded instance;
\* auto_now refreshes updated_at on every save
UpdatedRow(instance, body, t) ==
    [instance EXCEPT
        !.client_name = IF "client_name" \in DOMAIN body THEN body.client_name ELSE @,
        !.updated_at = t]

\* Client.objects.get(pk=...): TRUE when the row is found, else DoesNotExist
ClientGet(cl, pk) == pk \in DOMAIN cl

\* project.users.set(ids) on a project that was just inserted
UsersSet(pu, p, us) == pu \cup {<<p, u>> : u \in us}

\* request.user.created_projects.all()
UserProjectsView_get_queryset_Created(pr, pu, u) == {p \in DOMAIN pr : pr[p].created_by = u}

\* request.user.assigned_projects.all()
UserProjectsView_get_queryset(pr, pu, u) == {p \in DOMAIN pr : <<p, u>> \in pu}

(* Requests and responses *)

NoBody == [x \in {} |-> 0]

Request(method, view, pk, cred, body) ==
    [method |-> method, view |-> view, pk |-> pk, cred |-> cred, body |-> body]

Response(status, body) == [status |-> status, body |-> body]

\* NotAuthenticated / AuthenticationFailed: TokenAuthentication is the first
\* authenticator and supplies WWW-Authenticate, so the status is 401
Unauthorized == Response(401, [detail |-> "Authentication credentials"])

NotFound == Response(404, [detail |-> "Not found"])

BadRequest == Response(400, [detail |-> "Invalid"])

\* an exception no handler catches
ServerError(e) == Response(500, [exception |-> e])

\* ProjectCreateView.create after super().create(): data is the body of the
\* inner response, the representation by the view's serializer_class
ProjectCreateView_response(cl, pr, pu, data) ==
    IF "id" \in DOMAIN data
    THEN Response(201, ProjectSerializer(cl, pr, pu, data.id))
    ELSE ServerError("KeyError")

\* A worker: the request it serves (method, view, pk, cred, body), its position in
\* the handler (pc), what the handler holds in memory (instance: the row loaded by
\* get_object; collected: the projects the deletion collected; project: the id of
\* the project row it inserted) and the response it sent last (status, exception)
Worker(pc, r, instance, collected, project, status, exception) ==
    [pc |-> pc, method |-> r.method, view |-> r.view, pk |-> r.pk, cred |-> r.cred,
     body |-> r.body, instance |-> instance, collected |-> collected,
     project |-> project, status |-> status, exception |-> exception]

NoRow == [x \in {} |-> 0]

\* the worker after it answered request r with a response
Answered(r, response) ==
    Worker("idle", Request(r.method, r.view, r.pk, r.cred, NoBody), NoRow, {}, 0,
           response.status,
           IF "exception" \in DOMAIN response.body THEN response.body.exception ELSE "")

\* the worker at position pc of the handler of request r
Serving(pc, r, instance, collected, project) ==
    Worker(pc, r, instance, collected, project, 0, "")

IdleWorker == Answered(Request("NONE", "none", 0, Anonymous, NoBody), Response(0, NoBody))

\* timezone.now() read twice in a row: the second reading is not before the first
Ticks == {0, 1}

Init ==
    /\ clients = EmptyTable
    /\ projects = EmptyTable
    /\ project_users = {}
    /\ nextClientId = 1
    /\ nextProjectId = 1
    /\ clock = 0
    /\ req = Request("NONE", "none", 0, Anonymous, NoBody)
    /\ resp = Response(0, NoBody)
    /\ workers = [w \in Workers |-> IdleWorker]

----------------------------------------------------------------------------
(* Spec: one action per handler, the whole request in one step *)

\* GET /clients/
ClientListCreateView_list ==
    \E cred \in Credentials :
        /\ req' = Request("GET", "client-list-create", 0, cred, NoBody)
        /\ resp' = IF AuthenticationFailed(cred) THEN Unauthorized
                   ELSE IF ~ClientListCreateView_get_permissions("GET", cred) THEN Unauthorized
                   ELSE Response(200, {ClientListSerializer(clients, c) : c \in DOMAIN clients})
        /\ UNCHANGED <<db, workers>>

\* POST /clients/
\* The body is request.data, which the handler parses when it first reads it:
\* a request refused before that has no body read.
ClientListCreateView_create ==
    \E cred \in Credentials :
        /\ IF AuthenticationFailed(cred) \/ ~ClientListCreateView_get_permissions("POST", cred)
           THEN /\ req' = Request("POST", "client-list-create", 0, cred, NoBody)
                /\ resp' = Unauthorized
                /\ UNCHANGED db
           ELSE \E body \in ClientBodies :
                /\ req' = Request("POST", "client-list-create", 0, cred, body)
                /\ IF ~ValidClientBody(body, FALSE)
                   THEN resp' = BadRequest /\ UNCHANGED db
                   ELSE \E d1 \in Ticks, d2 \in Ticks :
                        LET t1 == clock + d1
                            t2 == t1 + d2
                            id == nextClientId
                        IN  /\ id <= MaxClients
                            /\ t2 <= MaxClock
                            \* perform_create: serializer.save(created_by=self.request.user)
                            /\ clients' = ClientSave(clients, id,
                                              ClientRow(body.client_name, RequestUser(cred), t1, t2))
                            /\ nextClientId' = id + 1
                            /\ clock' = t2
                            \* CreateModelMixin.create: Response(serializer.data, 201)
                            /\ resp' = Response(201, ClientCreateSerializer(clients', id))
                            /\ UNCHANGED <<projects, project_users, nextProjectId>>
        /\ UNCHANGED workers

\* GET /clients/<pk>/
ClientDetailView_retrieve ==
    \E cred \in Credentials, pk \in ClientIds :
        /\ req' = Request("GET", "client-detail", pk, cred, NoBody)
        /\ resp' = IF AuthenticationFailed(cred) \/ ~ClientDetailView_get_permissions("GET", cred)
                   THEN Unauthorized
                   ELSE IF ~ClientGet(clients, pk) THEN NotFound
                   ELSE Response(200, ClientSerializer(clients, projects, project_users, pk))
        /\ UNCHANGED <<db, workers>>

\* PUT /clients/<pk>/ and PATCH /clients/<pk>/
ClientDetailView_update ==
    \E method \in {"PUT", "PATCH"}, cred \in Credentials, pk \in ClientIds :
        /\ IF AuthenticationFailed(cred) \/ ~ClientDetailView_get_permissions(method, cred)
           THEN /\ req' = Request(method, "client-detail", pk, cred, NoBody)
                /\ resp' = Unauthorized
                /\ UNCHANGED db
           \* get_object
           ELSE IF ~ClientGet(clients, pk)
           THEN /\ req' = Request(method, "client-detail", pk, cred, NoBody)
                /\ resp' = NotFound
                /\ UNCHANGED db
           ELSE \E body \in ClientBodies :
                /\ req' = Request(method, "client-detail", pk, cred, body)
                /\ IF ~ValidClientBody(body, method = "PATCH")
                   THEN resp' = BadRequest /\ UNCHANGED db
                   ELSE \E d \in Ticks :
                        /\ clock + d <= MaxClock
                        \* perform_update: serializer.save()
                        /\ clients' = ClientSave(clients, pk,
                                          UpdatedRow(clients[pk], body, clock + d))
                        /\ clock' = clock + d
                        /\ resp' = Response(200,
                                       ClientSerializer(clients', projects, project_users, pk))
                        /\ UNCHANGED <<projects, project_users, nextClientId, nextProjectId>>
        /\ UNCHANGED workers

\* DELETE /clients/<pk>/
ClientDetailView_destroy ==
    \E cred \in Credentials, pk \in ClientIds :
        /\ req' = Request("DELETE", "client-detail", pk, cred, NoBody)
        /\ IF AuthenticationFailed(cred) \/ ~ClientDetailView_get_permissions("DELETE", cred)
           THEN resp' = Unauthorized /\ UNCHANGED db
           \* get_object
           ELSE IF ~ClientGet(clients, pk)
           THEN resp' = NotFound /\ UNCHANGED db
           ELSE LET collected == ClientProjects(projects, pk)
                IN  \* perform_destroy: instance.delete()
                    /\ project_users' = CascadeJunction(project_users, collected)
                    /\ projects' = CascadeProjects(projects, pk, collected)
                    /\ clients' = Remove(clients, {pk})
                    /\ resp' = Response(204, NoBody)
                    /\ UNCHANGED <<nextClientId, nextProjectId, clock>>
        /\ UNCHANGED workers

\* POST /clients/<pk>/projects/
ProjectCreateView_create ==
    \E cred \in Credentials, pk \in ClientIds :
        /\ IF AuthenticationFailed(cred) \/ ~ProjectCreateView_permission(cred)
           THEN /\ req' = Request("POST", "project-create", pk, cred, NoBody)
                /\ resp' = Unauthorized
                /\ UNCHANGED db
           ELSE \E body \in ProjectBodies :
                /\ req' = Request("POST", "project-create", pk, cred, body)
                \* CreateModelMixin.create: serializer.is_valid(raise_exception=True)
                /\ IF ~ValidProjectBody(body)
                   THEN resp' = BadRequest /\ UNCHANGED db
                   \* perform_create: Client.objects.get(pk=self.kwargs['pk'])
                   ELSE IF ~ClientGet(clients, pk)
                   THEN resp' = ServerError("DoesNotExist") /\ UNCHANGED db
                   ELSE \E d \in Ticks :
                        LET id == nextProjectId
                        IN  /\ id <= MaxProjects
                            /\ clock + d <= MaxClock
                            \* serializer.save(client=client, created_by=self.request.user)
                            /\ projects' = Put(projects, id,
                                               ProjectRow(body.project_name, pk,
                                                          RequestUser(cred), clock + d))
                            /\ project_users' = UsersSet(project_users, id, body.users)
                            /\ nextProjectId' = id + 1
                            /\ clock' = clock + d
                            \* create: response.data['id'] of the response of super().create()
                            /\ resp' = ProjectCreateView_response(
                                            clients, projects', project_users',
                                            ProjectCreateSerializer(projects', project_users', id))
                            /\ UNCHANGED <<clients, nextClientId>>
        /\ UNCHANGED workers

\* GET /projects/
UserProjectsView_list ==
    \E cred \in Credentials :
        /\ req' = Request("GET", "user-projects", 0, cred, NoBody)
        /\ resp' = IF AuthenticationFailed(cred) \/ ~UserProjectsView_permission(cred)
                   THEN Unauthorized
                   ELSE Response(200, {ProjectSerializer(clients, projects, project_users, p) :
                                         p \in UserProjectsView_get_queryset(
                                                   projects, project_users, RequestUser(cred))})
        /\ UNCHANGED <<db, workers>>

Next ==
    \/ ClientListCreateView_list
    \/ ClientListCreateView_create
    \/ ClientDetailView_retrieve
    \/ ClientDetailView_update
    \/ ClientDetailView_destroy
    \/ ProjectCreateView_create
    \/ UserProjectsView_list

Spec == Init /\ [][Next]_vars

----------------------------------------------------------------------------
(* SpecConc: a worker per request in flight, one step per database statement *)

\* SpecConc draws the requests that reach the database statements
ConcCredentials == {Token(1)}
ConcClientBodies == {[client_name |-> "Acme"]}
ConcProjectBodies == {[project_name |-> "Website", users |-> {1}],
                      [project_name |-> "Website", users |-> {}]}

Idle(w) == workers[w].pc = "idle"

At(w, view, pc) == workers[w].view = view /\ workers[w].pc = pc

Answer(w, r, response) == workers' = [workers EXCEPT ![w] = Answered(r, response)]

\* POST /clients/: one INSERT
Conc_ClientCreate(w) ==
    /\ Idle(w)
    /\ \E cred \in ConcCredentials, body \in ConcClientBodies :
        LET r == Request("POST", "client-list-create", 0, cred, body)
        IN  IF AuthenticationFailed(cred) \/ ~ClientListCreateView_get_permissions("POST", cred)
            THEN Answer(w, r, Unauthorized) /\ UNCHANGED db
            ELSE IF ~ValidClientBody(body, FALSE)
            THEN Answer(w, r, BadRequest) /\ UNCHANGED db
            ELSE \E d1 \in Ticks, d2 \in Ticks :
                 LET t1 == clock + d1
                     t2 == t1 + d2
                     id == nextClientId
                 IN  /\ id <= MaxClients
                     /\ t2 <= MaxClock
                     /\ clients' = ClientSave(clients, id,
                                       ClientRow(body.client_name, RequestUser(cred), t1, t2))
                     /\ nextClientId' = id + 1
                     /\ clock' = t2
                     /\ Answer(w, r, Response(201, ClientCreateSerializer(clients', id)))
                     /\ UNCHANGED <<projects, project_users, nextProjectId>>
    /\ UNCHANGED <<req, resp>>

\* GET /clients/<pk>/: get_object
Conc_ClientRetrieve(w) ==
    /\ Idle(w)
    /\ \E cred \in ConcCredentials, pk \in ClientIds :
        LET r == Request("GET", "client-detail", pk, cred, NoBody)
        IN  Answer(w, r,
                IF AuthenticationFailed(cred) \/ ~ClientDetailView_get_permissions("GET", cred)
                THEN Unauthorized
                ELSE IF ~ClientGet(clients, pk) THEN NotFound
                ELSE Response(200, ClientSerializer(clients, projects, project_users, pk)))
    /\ UNCHANGED <<db, req, resp>>

\* PUT/PATCH /clients/<pk>/: get_object loads the row
Conc_UpdateLoad(w) ==
    /\ Idle(w)
    /\ \E method \in {"PUT", "PATCH"}, cred \in ConcCredentials, pk \in ClientIds,
          body \in ConcClientBodies :
        LET r == Request(method, "client-detail", pk, cred, body)
        IN  IF AuthenticationFailed(cred) \/ ~ClientDetailView_get_permissions(method, cred)
            THEN Answer(w, r, Unauthorized)
            ELSE IF ~ClientGet(clients, pk)
            THEN Answer(w, r, NotFound)
            ELSE IF ~ValidClientBody(body, method = "PATCH")
            THEN Answer(w, r, BadRequest)
            ELSE workers' = [workers EXCEPT ![w] = Serving("save", r, clients[pk], {}, 0)]
    /\ UNCHANGED <<db, req, resp>>

\* serializer.save() -> instance.save(): UPDATE ... WHERE id = pk with the fields of
\* the loaded instance; a row matched ends the save
Conc_UpdateSave(w) ==
    /\ At(w, "client-detail", "save")
    /\ \E d \in Ticks :
        LET me == workers[w]
            row == UpdatedRow(me.instance, me.body, clock + d)
        IN  /\ clock + d <= MaxClock
            /\ clock' = clock + d
            /\ IF ClientGet(clients, me.pk)
               THEN /\ clients' = ClientSave(clients, me.pk, row)
                    /\ Answer(w, me, Response(200, NoBody))
               ELSE /\ clients' = clients
                    /\ workers' = [workers EXCEPT ![w] = Serving("insert", me, row, {}, 0)]
    /\ UNCHANGED <<projects, project_users, nextClientId, nextProjectId, req, resp>>

\* instance.save() when the UPDATE matched no row: INSERT of the instance under its key
Conc_UpdateInsert(w) ==
    /\ At(w, "client-detail", "insert")
    /\ LET me == workers[w]
       IN  IF ClientGet(clients, me.pk)
           THEN /\ clients' = clients
                /\ Answer(w, me, ServerError("IntegrityError"))
           ELSE /\ clients' = ClientSave(clients, me.pk, me.instance)
                /\ Answer(w, me, Response(200, NoBody))
    /\ UNCHANGED <<projects, project_users, nextClientId, nextProjectId, clock, req, resp>>

\* DELETE /clients/<pk>/: get_object loads the row
Conc_DestroyLoad(w) ==
    /\ Idle(w)
    /\ \E cred \in ConcCredentials, pk \in ClientIds :
        LET r == Request("DELETE", "client-detail", pk, cred, NoBody)
        IN  IF AuthenticationFailed(cred) \/ ~ClientDetailView_get_permissions("DELETE", cred)
            THEN Answer(w, r, Unauthorized)
            ELSE IF ~ClientGet(clients, pk)
            THEN Answer(w, r, NotFound)
            ELSE workers' = [workers EXCEPT ![w] = Serving("collect", r, clients[pk], {}, 0)]
    /\ UNCHANGED <<db, req, resp>>

\* instance.delete(): the collector selects the projects of the client
Conc_DestroyCollect(w) ==
    /\ At(w, "client-detail", "collect")
    /\ LET me == workers[w]
       IN  workers' = [workers EXCEPT ![w] =
                          Serving("delete", me, me.instance, ClientProjects(projects, me.pk), 0)]
    /\ UNCHANGED <<db, req, resp>>

\* instance.delete(): one transaction deletes the junction rows of the collected
\* projects, the collected projects and the client row; a project row that still
\* references the client fails the transaction, which is rolled back
Conc_DestroyDelete(w) ==
    /\ At(w, "client-detail", "delete")
    /\ LET me == workers[w]
           pr == CascadeProjects(projects, me.pk, me.collected)
       IN  IF \E p \in DOMAIN pr : ~ProjectFkHolds(Remove(clients, {me.pk}), pr[p].client)
           THEN /\ UNCHANGED <<clients, projects, project_users>>
                /\ Answer(w, me, ServerError("IntegrityError"))
           ELSE /\ project_users' = CascadeJunction(project_users, me.collected)
                /\ projects' = pr
                /\ clients' = Remove(clients, {me.pk})
                /\ Answer(w, me, Response(204, NoBody))
    /\ UNCHANGED <<nextClientId, nextProjectId, clock, req, resp>>

\* POST /clients/<pk>/projects/: serializer.is_valid
Conc_ProjectValidate(w) ==
    /\ Idle(w)
    /\ \E cred \in ConcCredentials, pk \in ClientIds, body \in ConcProjectBodies :
        LET r == Request("POST", "project-create", pk, cred, body)
        IN  IF AuthenticationFailed(cred) \/ ~ProjectCreateView_permission(cred)
            THEN Answer(w, r, Unauthorized)
            ELSE IF ~ValidProjectBody(body)
            THEN Answer(w, r, BadRequest)
            ELSE workers' = [workers EXCEPT ![w] = Serving("get_client", r, NoRow, {}, 0)]
    /\ UNCHANGED <<db, req, resp>>

\* perform_create: Client.objects.get(pk=self.kwargs['pk'])
Conc_ProjectGetClient(w) ==
    /\ At(w, "project-create", "get_client")
    /\ LET me == workers[w]
       IN  IF ~ClientGet(clients, me.pk)
           THEN Answer(w, me, ServerError("DoesNotExist"))
           ELSE workers' = [workers EXCEPT ![w] =
                               Serving("insert_project", me, clients[me.pk], {}, 0)]
    /\ UNCHANGED <<db, req, resp>>

\* serializer.save(): INSERT of the project row, refused by the store when the
\* client row is gone
Conc_ProjectInsert(w) ==
    /\ At(w, "project-create", "insert_project")
    /\ \E d \in Ticks :
        LET me == workers[w]
            id == nextProjectId
        IN  /\ id <= MaxProjects
            /\ clock + d <= MaxClock
            /\ clock' = clock + d
            /\ IF ~ProjectFkHolds(clients, me.pk)
               THEN /\ UNCHANGED <<projects, nextProjectId>>
                    /\ Answer(w, me, ServerError("IntegrityError"))
               ELSE /\ projects' = Put(projects, id,
                                       ProjectRow(me.body.project_name, me.pk,
                                                  RequestUser(me.cred), clock + d))
                    /\ nextProjectId' = id + 1
                    /\ workers' = [workers EXCEPT ![w] =
                                       Serving("set_users", me, me.instance, {}, id)]
    /\ UNCHANGED <<clients, project_users, nextClientId, req, resp>>

\* serializer.save(): project.users.set(ids), refused by the store when the project
\* row is gone; then create() reads response.data['id']
Conc_ProjectSetUsers(w) ==
    /\ At(w, "project-create", "set_users")
    /\ LET me == workers[w]
       IN  IF me.body.users # {} /\ ~JunctionFkHolds(projects, me.project)
           THEN /\ project_users' = project_users
                /\ Answer(w, me, ServerError("IntegrityError"))
           ELSE /\ project_users' = UsersSet(project_users, me.project, me.body.users)
                /\ Answer(w, me,
                      ProjectCreateView_response(clients, projects, project_users',
                          [project_name |-> me.body.project_name, users |-> me.body.users]))
    /\ UNCHANGED <<clients, projects, nextClientId, nextProjectId, clock, req, resp>>

NextConc ==
    \E w \in Workers :
        \/ Conc_ClientCreate(w)
        \/ Conc_ClientRetrieve(w)
        \/ Conc_UpdateLoad(w)
        \/ Conc_UpdateSave(w)
        \/ Conc_UpdateInsert(w)
        \/ Conc_DestroyLoad(w)
        \/ Conc_DestroyCollect(w)
        \/ Conc_DestroyDelete(w)
        \/ Conc_ProjectValidate(w)
        \/ Conc_ProjectGetClient(w)
        \/ Conc_ProjectInsert(w)
        \/ Conc_ProjectSetUsers(w)

SpecConc == Init /\ [][NextConc]_vars

----------------------------------------------------------------------------
(* Properties of Spec *)

stored == <<clients, projects, project_users>>

AnonymousRead(r) == r.method = "GET" /\ r.view \in {"client-list-create", "client-detail"}

\* C1: a request without a valid credential (none, or a token of no user) to any
\* write endpoint or to GET /projects/ is answered 401/403 and leaves the stored
\* clients, projects and assignments as they were; a request with no credential to
\* GET /clients/ or GET /clients/<pk>/ is served (200, or 404 for a pk of no client).
C1_AnonymousRefused ==
    [][ /\ (req'.cred.kind # "token" /\ ~AnonymousRead(req'))
            => (resp'.status \in {401, 403} /\ UNCHANGED stored)
        /\ (req'.cred = Anonymous /\ AnonymousRead(req'))
            => /\ UNCHANGED stored
               /\ resp'.status =
                     IF req'.view = "client-detail" /\ req'.pk \notin DOMAIN clients
                     THEN 404 ELSE 200
      ]_vars

C1_Witness ==
    /\ req.view = "project-create"
    /\ req.cred = Anonymous
    /\ req.pk \in DOMAIN clients
    /\ resp.status = 401

\* C2: an authenticated POST /clients/<pk>/projects/ for an existing client with a
\* valid body creates exactly one project of that client, created by the caller,
\* assigned to the given users, and answers 201 with the project detail of it.
C2_ProjectCreated ==
    [][ (/\ req'.view = "project-create"
         /\ req'.cred.kind = "token"
         /\ req'.pk \in DOMAIN clients
         /\ ValidProjectBody(req'.body))
        => \E p \in DOMAIN projects' \ DOMAIN projects :
              /\ DOMAIN projects' = DOMAIN projects \cup {p}
              /\ projects'[p].client = req'.pk
              /\ projects'[p].created_by = req'.cred.user
              /\ ProjectUsers(project_users', p) = req'.body.users
              /\ resp'.status = 201
              /\ resp'.body = ProjectSerializer(clients', projects', project_users', p)
      ]_vars

\* C3: a request that is answered with an error status has changed nothing of the
\* stored clients, projects and assignments.
C3_ErrorMeansNoEffect ==
    [][ resp'.status >= 400 => UNCHANGED stored ]_vars

\* C4: an authenticated POST /clients/<pk>/projects/ whose pk names no client is
\* answered 404 and creates no project and no assignment, whatever the body.
C4_UnknownClientNotFound ==
    [][ (/\ req'.view = "project-create"
         /\ req'.cred.kind = "token"
         /\ req'.pk \notin DOMAIN clients)
        => (resp'.status = 404 /\ UNCHANGED <<projects, project_users>>)
      ]_vars

NamesUnknownUser(body) == "users" \in DOMAIN body /\ \E u \in body.users : u \notin Users

\* C5: an authenticated POST /clients/<pk>/projects/ whose users list holds an id of
\* no user is answered 400, and the stored projects and every user's assignments
\* are the same after it as before.
C5_UnknownUserRejected ==
    [][ (/\ req'.view = "project-create"
         /\ req'.cred.kind = "token"
         /\ NamesUnknownUser(req'.body))
        => (resp'.status = 400 /\ UNCHANGED <<projects, project_users>>)
      ]_vars

C5_Witness ==
    /\ req.view = "project-create"
    /\ req.cred.kind = "token"
    /\ req.pk \in DOMAIN clients
    /\ ValidCharField(req.body, "project_name")
    /\ NamesUnknownUser(req.body)
    /\ req.body.users \cap Users # {}
    /\ resp.status = 400

\* the answer of GET /clients/<pk>/ without credential in a state of the store
RetrieveStatus(cl, pk) == IF ClientGet(cl, pk) THEN 200 ELSE 404

C7_AssignedProjectsOnly ==
    (req.view = "user-projects" /\ req.cred.kind = "token")
    => /\ resp.status = 200
       /\ resp.body = {ProjectSerializer(clients, projects, project_users, p) :
                          p \in {q \in DOMAIN projects :
                                   req.cred.user \in ProjectUsers(project_users, q)}}

C7_Witness ==
    /\ req.view = "user-projects"
    /\ req.cred.kind = "token"
    /\ resp.body = {}
    /\ \E p \in DOMAIN projects :
          /\ projects[p].created_by = req.cred.user
          /\ ProjectUsers(project_users, p) # {}

ClientDetailFields == {"id", "client_name", "created_at", "created_by", "updated_at", "projects"}

\* C8: a POST /clients/ answered 201 has stored one new client created by the
\* caller, with created_at and updated_at set and updated_at >= created_at, and the
\* response carries the client detail fields.
C8_ClientCreated ==
    [][ (req'.view = "client-list-create" /\ req'.method = "POST" /\ resp'.status = 201)
        => \E c \in DOMAIN clients' \ DOMAIN clients :
              /\ DOMAIN clients' = DOMAIN clients \cup {c}
              /\ clients'[c].client_name = req'.body.client_name
              /\ clients'[c].created_by = req'.cred.user
              /\ clients'[c].updated_at >= clients'[c].created_at
              /\ DOMAIN resp'.body = ClientDetailFields
      ]_vars

----------------------------------------------------------------------------
(* Properties of SpecConc *)

\* C9: in every state, under every interleaving of the requests, every stored
\* project references a client that is stored; a project row is inserted with the
\* client named in the path of the request that inserts it, and the reference of a
\* stored project never changes.
C9_ProjectHasClient ==
    /\ [](\A p \in DOMAIN projects : ClientGet(clients, projects[p].client))
    /\ [][ \A p \in DOMAIN projects' :
              IF p \in DOMAIN projects
              THEN projects'[p].client = projects[p].client
              ELSE \E w \in Workers :
                      /\ At(w, "project-create", "insert_project")
                      /\ workers'[w].project = p
                      /\ workers[w].pk = projects'[p].client
          ]_vars

\* a project creation that lost the race with the deletion of its client
C9_Witness ==
    \E w \in Workers :
        /\ workers[w].view = "project-create"
        /\ workers[w].status = 500
        /\ workers[w].exception = "IntegrityError"
        /\ nextProjectId = 1
        /\ \E v \in Workers : workers[v].method = "DELETE" /\ workers[v].status = 204
                                /\ workers[v].pk = workers[w].pk

\* C10: once a DELETE /clients/<pk>/ has answered 204 and every request in flight
\* has finished, no client with that pk is stored.
C10_DeleteIsFinal ==
    \A w \in Workers :
        (/\ workers[w].method = "DELETE"
         /\ workers[w].status = 204
         /\ \A v \in Workers : Idle(v))
        => RetrieveStatus(clients, workers[w].pk) = 404

====
